---- MODULE Spec2Model ----
(***************************************************************************)
(* Userspace driver facades of apps/libs/firestorm.c: console (putnstr,    *)
(* putstr, putnstr_async), timer (timer_subscribe, timer_oneshot,          *)
(* timer_start_repeating, delay_ms), SPI and the nRF51822 serialization    *)
(* bridge, on top of the kernel ABI allow / subscribe / command and the    *)
(* blocking wait_for.  The facades are translated from firestorm.c; the    *)
(* kernel side of the ABI and wait_for (tock.h) are modelled from the      *)
(* interface contract of the specification.                                *)
(***************************************************************************)
EXTENDS Integers, Sequences, FiniteSets, TLC

\* ------------------------------------------------------------------ bounds
\* number of facade calls the application makes in one run
MaxCalls == 2
\* number of callback invocations the kernel keeps pending for the process
MaxQueue == 2
\* number of spurious duplicate completion callbacks (SpecDup only)
MaxDup == 1
\* number of timer facade calls of an application that uses the timer only
\* (TimerSpec only)
MaxTimerCalls == 4

\* ------------------------------------------------------------------ values
\* the null pointer (no buffer, no user data)
NULL == 0
\* heap blocks malloc can hand out, one identity per allocation (a print
\* call allocates one block)
Bufs == 1..MaxCalls
\* caller-owned memory regions: an outbound buffer (str, write, tx) and an
\* inbound one (read, rx)
OutBuf == 101
InBuf == 102
CallerBufs == {OutBuf, InBuf}
\* the caller's memory holding the string passed to putnstr / putstr
StrBuf == 100
\* caller strings: characters up to the terminating NUL
Strs == {<<>>, <<104, 105>>}
\* buffer lengths the application passes
Lens == {0, 2}
\* timer intervals the application passes (0 and a positive one)
Intervals == {0, 5}
\* results of a primitive call: negative = error code, >= 0 = success
Results == {-2, -1, 0}
\* callback tags (CB_TYPE)
Tags == {"PUTSTR", "DELAY", "SPIBUF", "ASYNC"}
\* no pending wait
NoTag == "NONE"
\* callback functions: the three of firestorm.c and an application callback
Callbacks == {"putstr_cb", "delay_cb", "spi_cb", "app_cb"}
\* no callback registered
NoCb == "none"
NoReg == [cb |-> NoCb, ud |-> NULL]
\* (driver, operation) pairs the facades grant buffers to
AllowSlots == {<<0, 1>>, <<4, 0>>, <<4, 1>>, <<5, 0>>, <<5, 1>>}
\* (driver, event) pairs the facades subscribe to
SubSlots == {<<0, 1>>, <<3, 0>>, <<4, 0>>, <<5, 0>>}

VARIABLES
  heap,      \* heap block -> [st, data, frees]
  kernel,    \* [grants, regs, timer, busy]: kernel-side state of this process
  queue,     \* callback invocations delivered by the kernel, oldest first
  pending,   \* Pending Wait: the tag wait_for is blocked on, or NoTag
  call,      \* the facade call in progress or last returned: [fn, buf, log, ret]
  seen,      \* tags yielded by the callbacks dispatched in the current wait
  cbRuns,    \* heap block -> executions of putstr_cb with it as user data
  allowed,   \* heap blocks that were passed to allow(0, 1, ...)
  ncalls,    \* facade calls made so far
  ndup       \* spurious duplicate invocations made so far

vars == <<heap, kernel, queue, pending, call, seen, cbRuns, allowed, ncalls, ndup>>

\* ------------------------------------------------------------------ heap
NewBlock == [st |-> "unalloc", data |-> <<>>, frees |-> 0]

\* malloc: the block handed out is one not handed out before (the allocation
\* succeeds; block identities are not reused, so a stale pointer stays visible)
malloc(h) == CHOOSE b \in Bufs : h[b].st = "unalloc" /\ \A c \in Bufs : c < b => h[c].st # "unalloc"

\* strncpy(buf, str, len): the first len characters of str, NUL padded
strncpy(str, len) == [i \in 1..len |-> IF i <= Len(str) THEN str[i] ELSE 0]

\* strlen(str)
strlen(str) == Len(str)

\* free(p): free(NULL) does nothing; a second free of a block is counted
free(h, p) == IF p \in Bufs THEN [h EXCEPT ![p] = [st |-> "freed", data |-> <<>>, frees |-> @.frees + 1]] ELSE h

\* ------------------------------------------------------------------ kernel ABI
\* One record per primitive call issued, in the order issued.
Entry(sys, drv, num, buf, len, cb, ud, arg, res) == [sys |-> sys, drv |-> drv, num |-> num, buf |-> buf, len |-> len, cb |-> cb, ud |-> ud, arg |-> arg, res |-> res]

\* allow(driver, operation, address, length) -> res.  A non-negative result
\* exposes the region to the driver; length 0 revokes the grant.
allow(s, drv, num, buf, len, res) ==
  [k |-> IF res < 0 THEN s.k
         ELSE [s.k EXCEPT !.grants[<<drv, num>>] = IF len = 0 THEN NULL ELSE buf],
   log |-> Append(s.log, Entry("allow", drv, num, buf, len, NoCb, NULL, 0, res))]

\* subscribe(driver, event, callback, user_data) -> res.  A non-negative
\* result replaces the registration of (driver, event).  The console starts
\* writing the granted buffer when its completion callback is registered.
subscribe(s, drv, num, cb, ud, res) ==
  [k |-> IF res < 0 THEN s.k
         ELSE [s.k EXCEPT !.regs[<<drv, num>>] = [cb |-> cb, ud |-> ud],
                          !.busy = IF drv = 0 /\ s.k.grants[<<0, 1>>] # NULL THEN @ \cup {0} ELSE @],
   log |-> Append(s.log, Entry("subscribe", drv, num, NULL, 0, cb, ud, 0, res))]

\* command(driver, operation, argument) -> res.  A non-negative result
\* starts the driver action: timer one-shot (3,0), repeating timer (3,1),
\* SPI buffer transfer (4,1), serialization transmit (5,0).
command(s, drv, num, arg, res) ==
  [k |-> IF res < 0 THEN s.k
         ELSE IF drv = 3 THEN [s.k EXCEPT !.timer = IF num = 0 THEN "oneshot" ELSE "repeating"]
         ELSE IF drv = 4 /\ num = 1 THEN [s.k EXCEPT !.busy = @ \cup {4}]
         ELSE IF drv = 5 /\ num = 0 THEN [s.k EXCEPT !.busy = @ \cup {5}]
         ELSE s.k,
   log |-> Append(s.log, Entry("command", drv, num, NULL, 0, NoCb, NULL, arg, res))]

\* the state a facade call starts from: the kernel as it is, nothing issued
Enter == [k |-> kernel, log |-> <<>>]

\* ------------------------------------------------------------------ console
\* mutant of putstr_cb: the callback forgets the free
putstr_cb_nofree(h, str) == [heap |-> h, tag |-> "PUTSTR"]

\* putstr_cb: frees its user data and yields PUTSTR
putstr_cb(h, str) == [heap |-> free(h, str), tag |-> "PUTSTR"]

\* mutant of putnstr_async: the console is addressed as driver 1
putnstr_async_drv1(s, str, len, cb, userdata, rs) ==
  subscribe(allow(s, 1, 1, str, len, rs[1]), 1, 1, cb, userdata, rs[2])

\* mutant of putnstr_async: the callback is registered before the grant
putnstr_async_swapped(s, str, len, cb, userdata, rs) ==
  allow(subscribe(s, 0, 1, cb, userdata, rs[2]), 0, 1, str, len, rs[1])

\* putnstr_async: grant the buffer, register the callback; results unused
putnstr_async(s, str, len, cb, userdata, rs) ==
  subscribe(allow(s, 0, 1, str, len, rs[1]), 0, 1, cb, userdata, rs[2])

\* mutant of putnstr_cb: the user data is the block of the first print
putnstr_cb_first(buf) == [cb |-> "putstr_cb", ud |-> 1]

\* the callback and user data putnstr registers for its buffer
putnstr_cb(buf) == [cb |-> "putstr_cb", ud |-> buf]

\* the tag putnstr waits for
putnstr_tag == "PUTSTR"

\* mutant of putnstr_return: putnstr frees its buffer itself after the wait
putnstr_return_free(h, buf) == free(h, buf)

\* putnstr after its wait: returns, the heap untouched
putnstr_return(h, buf) == h

\* mutant of putnstr_region: the caller's string itself is handed on
putnstr_region_str(buf, str) == str

\* the region putnstr hands to putnstr_async: its copy buf, not the caller's str
putnstr_region(buf, str) == buf

\* putnstr up to its wait: allocate, copy, hand to putnstr_async
putnstr_body(s, h, str, len, rs) ==
  LET buf == malloc(h)
      reg == putnstr_cb(buf)
  IN [s |-> putnstr_async(s, putnstr_region(buf, StrBuf), len, reg.cb, reg.ud, rs),
      heap |-> [h EXCEPT ![buf] = [st |-> "alloc", data |-> strncpy(str, len), frees |-> 0]],
      buf |-> buf]

\* ------------------------------------------------------------------ timer
timer_subscribe(s, cb, userdata, r) == [s |-> subscribe(s, 3, 0, cb, userdata, r), ret |-> <<r>>]

timer_oneshot(s, interval, r) == [s |-> command(s, 3, 0, interval, r), ret |-> <<r>>]

timer_start_repeating(s, interval, r) == [s |-> command(s, 3, 1, interval, r), ret |-> <<r>>]

\* mutant of delay_cb: the timer callback yields the wrong tag
delay_cb_async(h) == [heap |-> h, tag |-> "ASYNC"]

\* delay_cb: yields DELAY
delay_cb(h) == [heap |-> h, tag |-> "DELAY"]

\* mutant of delay_tag: delay_ms waits on the SPI tag
delay_tag_spibuf == "SPIBUF"

\* the tag delay_ms waits for
delay_tag == "DELAY"

\* delay_ms up to its wait: subscribe, one-shot; results unused
delay_ms_body(s, ms, rs) ==
  timer_oneshot(timer_subscribe(s, "delay_cb", NULL, rs[1]).s, ms, rs[2]).s

\* ------------------------------------------------------------------ SPI
spi_write_byte(s, byte, r) == [s |-> command(s, 4, 0, byte, r), ret |-> <<r>>]

spi_read_buf(s, str, len, r) == [s |-> allow(s, 4, 0, str, len, r), ret |-> <<r>>]

\* spi_cb: yields SPIBUF
spi_cb(h) == [heap |-> h, tag |-> "SPIBUF"]

\* mutant of spi_write: a failed subscribe revokes the write grant
spi_write_rollback(s, str, len, cb, rs) ==
  LET s1 == allow(s, 4, 1, str, len, rs[1])
      s2 == subscribe(s1, 4, 0, cb, NULL, rs[2])
      s3 == command(s2, 4, 1, len, rs[3])
  IN IF rs[1] < 0 THEN [s |-> s1, ret |-> <<rs[1]>>]
     ELSE IF rs[2] < 0 THEN [s |-> allow(s2, 4, 1, str, 0, rs[3]), ret |-> <<rs[2]>>]
     ELSE [s |-> s3, ret |-> <<rs[3]>>]

\* mutant of spi_write: the result of subscribe is not tested
spi_write_nocheck(s, str, len, cb, rs) ==
  LET s1 == allow(s, 4, 1, str, len, rs[1])
      s2 == subscribe(s1, 4, 0, cb, NULL, rs[2])
      s3 == command(s2, 4, 1, len, rs[3])
  IN IF rs[1] < 0 THEN [s |-> s1, ret |-> <<rs[1]>>]
     ELSE [s |-> s3, ret |-> <<rs[3]>>]

\* spi_write: grant the write buffer, subscribe, start the transfer; the
\* first negative result is returned and nothing more is issued
spi_write(s, str, len, cb, rs) ==
  LET s1 == allow(s, 4, 1, str, len, rs[1])
      s2 == subscribe(s1, 4, 0, cb, NULL, rs[2])
      s3 == command(s2, 4, 1, len, rs[3])
  IN IF rs[1] < 0 THEN [s |-> s1, ret |-> <<rs[1]>>]
     ELSE IF rs[2] < 0 THEN [s |-> s2, ret |-> <<rs[2]>>]
     ELSE [s |-> s3, ret |-> <<rs[3]>>]

\* mutant of spi_read_write: the result of the read grant is not tested
spi_read_write_nocheck(s, write, read, len, cb, rs) ==
  spi_write(allow(s, 4, 0, read, len, rs[1]), write, len, cb, Tail(rs))

\* spi_read_write: grant the read buffer, then spi_write
spi_read_write(s, write, read, len, cb, rs) ==
  LET s1 == allow(s, 4, 0, read, len, rs[1])
  IN IF rs[1] < 0 THEN [s |-> s1, ret |-> <<rs[1]>>]
     ELSE spi_write(s1, write, len, cb, Tail(rs))

\* spi_block_write: spi_write with spi_cb; the wait is commented out
spi_block_write(s, str, len, rs) == spi_write(s, str, len, "spi_cb", rs)

\* ------------------------------------------------------------------ nRF51822
nrf51822_serialization_subscribe(s, cb, r) == [s |-> subscribe(s, 5, 0, cb, NULL, r), ret |-> <<>>]

nrf51822_serialization_setup_rx_buffer(s, rx, rx_len, r) == [s |-> allow(s, 5, 0, rx, rx_len, r), ret |-> <<>>]

nrf51822_serialization_write(s, tx, tx_len, rs) ==
  [s |-> command(allow(s, 5, 1, tx, tx_len, rs[1]), 5, 0, 0, rs[2]), ret |-> <<>>]

\* ------------------------------------------------------------------ waits
\* mutant of wait_tag: the wait of spi_block_write is not commented out
wait_tag_spi_blocks(fn) ==
  IF fn \in {"putnstr", "putstr"} THEN putnstr_tag
  ELSE IF fn = "delay_ms" THEN delay_tag
  ELSE IF fn = "spi_block_write" THEN "SPIBUF"
  ELSE NoTag

\* the wait_for a facade function ends with: wait_for(PUTSTR) in putnstr (and
\* in putstr through it), wait_for(DELAY) in delay_ms, none in the others
\* (the wait_for(SPIBUF) of spi_block_write is commented out)
wait_tag(fn) ==
  IF fn \in {"putnstr", "putstr"} THEN putnstr_tag
  ELSE IF fn = "delay_ms" THEN delay_tag
  ELSE NoTag

\* ------------------------------------------------------------------ wait_for
\* run one delivered invocation: the callback's side effect and its tag
RunCallback(inv, h) ==
  IF inv.cb = "putstr_cb" THEN putstr_cb(h, inv.ud)
  ELSE IF inv.cb = "delay_cb" THEN delay_cb(h)
  ELSE IF inv.cb = "spi_cb" THEN spi_cb(h)
  ELSE [heap |-> h, tag |-> "ASYNC"]

\* the kernel delivers the registration of slot, if there is one
Deliver(q, reg) == IF reg.cb = NoCb THEN q ELSE Append(q, reg)

TypeOK ==
  /\ heap \in [Bufs -> [st : {"unalloc", "alloc", "freed"}, data : Seq(Int), frees : Nat]]
  /\ kernel.grants \in [AllowSlots -> {NULL} \cup Bufs \cup CallerBufs]
  /\ kernel.regs \in [SubSlots -> [cb : Callbacks \cup {NoCb}, ud : {NULL} \cup Bufs \cup CallerBufs]]
  /\ kernel.timer \in {"off", "oneshot", "repeating"}
  /\ kernel.busy \subseteq {0, 4, 5}
  /\ Len(queue) <= MaxQueue
  /\ pending \in Tags \cup {NoTag}
  /\ seen \subseteq Tags
  /\ allowed \subseteq Bufs
  /\ ncalls \in 0..MaxCalls
  /\ ndup \in 0..MaxDup

Init ==
  /\ heap = [b \in Bufs |-> NewBlock]
  /\ kernel = [grants |-> [a \in AllowSlots |-> NULL],
               regs |-> [e \in SubSlots |-> NoReg],
               timer |-> "off",
               busy |-> {}]
  /\ queue = <<>>
  /\ pending = NoTag
  /\ call = [fn |-> "none", buf |-> NULL, log |-> <<>>, ret |-> <<>>]
  /\ seen = {}
  /\ cbRuns = [b \in Bufs |-> 0]
  /\ allowed = {}
  /\ ncalls = 0
  /\ ndup = 0

\* the application is running (not suspended in wait_for) and may call
CanCall == pending = NoTag /\ ncalls < MaxCalls

\* a facade call that returns without waiting
Returns(fn, r) ==
  /\ kernel' = r.s.k
  /\ call' = [fn |-> fn, buf |-> NULL, log |-> r.s.log, ret |-> r.ret]
  /\ pending' = wait_tag(fn)
  /\ ncalls' = ncalls + 1
  /\ UNCHANGED <<heap, queue, seen, cbRuns, allowed, ndup>>

\* a blocking print: putnstr(str, len), entered and suspended in wait_for
Blocks_putnstr(fn, str, len) ==
  /\ CanCall
  /\ \E b \in Bufs : heap[b].st = "unalloc"
  /\ \E rs \in [1..2 -> Results] :
       LET r == putnstr_body(Enter, heap, str, len, rs)
       IN /\ kernel' = r.s.k
          /\ heap' = r.heap
          /\ call' = [fn |-> fn, buf |-> r.buf, log |-> r.s.log, ret |-> <<>>]
          /\ allowed' = allowed \cup {r.s.log[i].buf : i \in {j \in 1..Len(r.s.log) : r.s.log[j].sys = "allow"}}
  /\ pending' = wait_tag(fn)
  /\ seen' = {}
  /\ ncalls' = ncalls + 1
  /\ UNCHANGED <<queue, cbRuns, ndup>>

PutNStr == \E str \in Strs, len \in Lens : Blocks_putnstr("putnstr", str, len)

\* putstr(str) is putnstr(str, strlen(str))
PutStr == \E str \in Strs : Blocks_putnstr("putstr", str, strlen(str))

PutNStrAsync ==
  /\ CanCall
  /\ \E len \in Lens, rs \in [1..2 -> Results] :
       Returns("putnstr_async", [s |-> putnstr_async(Enter, OutBuf, len, "app_cb", NULL, rs), ret |-> <<>>])

\* the application calls timer_subscribe with a callback of its own
Calls_timer_subscribe ==
  \E r \in Results : Returns("timer_subscribe", timer_subscribe(Enter, "app_cb", NULL, r))

\* the application calls timer_oneshot
Calls_timer_oneshot ==
  \E i \in Intervals, r \in Results : Returns("timer_oneshot", timer_oneshot(Enter, i, r))

\* the application calls timer_start_repeating
Calls_timer_start_repeating ==
  \E i \in Intervals, r \in Results : Returns("timer_start_repeating", timer_start_repeating(Enter, i, r))

\* the application calls delay_ms: entered and suspended in wait_for
Blocks_delay_ms ==
  /\ \E ms \in Intervals, rs \in [1..2 -> Results] :
       LET s == delay_ms_body(Enter, ms, rs)
       IN /\ kernel' = s.k
          /\ call' = [fn |-> "delay_ms", buf |-> NULL, log |-> s.log, ret |-> <<>>]
  /\ pending' = wait_tag("delay_ms")
  /\ seen' = {}
  /\ ncalls' = ncalls + 1
  /\ UNCHANGED <<heap, queue, cbRuns, allowed, ndup>>

TimerSubscribe == CanCall /\ Calls_timer_subscribe

TimerOneshot == CanCall /\ Calls_timer_oneshot

TimerStartRepeating == CanCall /\ Calls_timer_start_repeating

DelayMs == CanCall /\ Blocks_delay_ms

SpiWriteByte ==
  /\ CanCall
  /\ \E r \in Results : Returns("spi_write_byte", spi_write_byte(Enter, 7, r))

SpiReadBuf ==
  /\ CanCall
  /\ \E len \in Lens, r \in Results :
       Returns("spi_read_buf", spi_read_buf(Enter, InBuf, len, r))

SpiWrite ==
  /\ CanCall
  /\ \E len \in Lens, rs \in [1..3 -> Results] :
       Returns("spi_write", spi_write(Enter, OutBuf, len, "app_cb", rs))

SpiReadWrite ==
  /\ CanCall
  /\ \E len \in Lens, rs \in [1..4 -> Results] :
       Returns("spi_read_write", spi_read_write(Enter, OutBuf, InBuf, len, "app_cb", rs))

SpiBlockWrite ==
  /\ CanCall
  /\ \E len \in Lens, rs \in [1..3 -> Results] :
       Returns("spi_block_write", spi_block_write(Enter, OutBuf, len, rs))

NrfSubscribe ==
  /\ CanCall
  /\ \E r \in Results : Returns("nrf51822_serialization_subscribe", nrf51822_serialization_subscribe(Enter, "app_cb", r))

NrfSetupRxBuffer ==
  /\ CanCall
  /\ \E len \in Lens, r \in Results :
       Returns("nrf51822_serialization_setup_rx_buffer", nrf51822_serialization_setup_rx_buffer(Enter, InBuf, len, r))

NrfWrite ==
  /\ CanCall
  /\ \E len \in Lens, rs \in [1..2 -> Results] :
       Returns("nrf51822_serialization_write", nrf51822_serialization_write(Enter, OutBuf, len, rs))

\* one turn of wait_for: pop the oldest delivered invocation, run its
\* callback to completion, return to the caller if it yielded the awaited tag
Dispatch ==
  /\ pending # NoTag
  /\ queue # <<>>
  /\ LET inv == Head(queue)
         r == RunCallback(inv, heap)
         done == r.tag = pending
     IN /\ heap' = IF done /\ call.fn \in {"putnstr", "putstr"} THEN putnstr_return(r.heap, call.buf) ELSE r.heap
        /\ pending' = IF done THEN NoTag ELSE pending
        /\ seen' = seen \cup {r.tag}
        /\ cbRuns' = IF inv.cb = "putstr_cb" /\ inv.ud \in Bufs THEN [cbRuns EXCEPT ![inv.ud] = @ + 1] ELSE cbRuns
  /\ queue' = Tail(queue)
  /\ UNCHANGED <<kernel, call, allowed, ncalls, ndup>>

\* the console finished writing the granted buffer
ConsoleDone ==
  /\ 0 \in kernel.busy
  /\ Len(queue) < MaxQueue
  /\ queue' = Deliver(queue, kernel.regs[<<0, 1>>])
  /\ kernel' = [kernel EXCEPT !.busy = @ \ {0}, !.grants[<<0, 1>>] = NULL]
  /\ UNCHANGED <<heap, pending, call, seen, cbRuns, allowed, ncalls, ndup>>

\* the timer fired: a one-shot is spent, a repeating timer stays armed
TimerFire ==
  /\ kernel.timer # "off"
  /\ Len(queue) < MaxQueue
  /\ queue' = Deliver(queue, kernel.regs[<<3, 0>>])
  /\ kernel' = [kernel EXCEPT !.timer = IF @ = "oneshot" THEN "off" ELSE @]
  /\ UNCHANGED <<heap, pending, call, seen, cbRuns, allowed, ncalls, ndup>>

\* the SPI transfer finished
SpiDone ==
  /\ 4 \in kernel.busy
  /\ Len(queue) < MaxQueue
  /\ queue' = Deliver(queue, kernel.regs[<<4, 0>>])
  /\ kernel' = [kernel EXCEPT !.busy = @ \ {4}, !.grants[<<4, 0>>] = NULL, !.grants[<<4, 1>>] = NULL]
  /\ UNCHANGED <<heap, pending, call, seen, cbRuns, allowed, ncalls, ndup>>

\* the serialization transmit finished
NrfDone ==
  /\ 5 \in kernel.busy
  /\ Len(queue) < MaxQueue
  /\ queue' = Deliver(queue, kernel.regs[<<5, 0>>])
  /\ kernel' = [kernel EXCEPT !.busy = @ \ {5}, !.grants[<<5, 1>>] = NULL]
  /\ UNCHANGED <<heap, pending, call, seen, cbRuns, allowed, ncalls, ndup>>

\* a completion callback of an earlier print is invoked once more
SpuriousDup ==
  /\ ndup < MaxDup
  /\ Len(queue) < MaxQueue
  /\ \E b \in Bufs : cbRuns[b] >= 1 /\ queue' = Append(queue, putnstr_cb(b))
  /\ ndup' = ndup + 1
  /\ UNCHANGED <<heap, kernel, pending, call, seen, cbRuns, allowed, ncalls>>

Next ==
  \/ PutNStr
  \/ PutStr
  \/ PutNStrAsync
  \/ TimerSubscribe
  \/ TimerOneshot
  \/ TimerStartRepeating
  \/ DelayMs
  \/ SpiWriteByte
  \/ SpiReadBuf
  \/ SpiWrite
  \/ SpiReadWrite
  \/ SpiBlockWrite
  \/ NrfSubscribe
  \/ NrfSetupRxBuffer
  \/ NrfWrite
  \/ Dispatch
  \/ ConsoleDone
  \/ TimerFire
  \/ SpiDone
  \/ NrfDone

Spec == Init /\ [][Next]_vars

NextDup == Next \/ SpuriousDup

\* the kernel may also invoke a completion callback a second time
SpecDup == Init /\ [][NextDup]_vars

\* the kernel's dispatch loop is fair: a delivered callback is eventually
\* dispatched to a waiting process and a started driver action completes
FairSpec ==
  /\ Spec
  /\ WF_vars(Dispatch)
  /\ SF_vars(TimerFire)
  /\ SF_vars(ConsoleDone)
  /\ SF_vars(SpiDone)
  /\ SF_vars(NrfDone)

\* an application that uses the timer facade only, for more calls
TimerCanCall == pending = NoTag /\ ncalls < MaxTimerCalls

TimerAppSubscribe == TimerCanCall /\ Calls_timer_subscribe

TimerAppOneshot == TimerCanCall /\ Calls_timer_oneshot

TimerAppStartRepeating == TimerCanCall /\ Calls_timer_start_repeating

TimerAppDelayMs == TimerCanCall /\ Blocks_delay_ms

TimerNext ==
  \/ TimerAppSubscribe
  \/ TimerAppOneshot
  \/ TimerAppStartRepeating
  \/ TimerAppDelayMs
  \/ Dispatch
  \/ TimerFire

TimerSpec == Init /\ [][TimerNext]_vars

\* ------------------------------------------------------------------ claims
\* blocking print calls
Prints == {"putnstr", "putstr"}

\* blocks malloc has handed out so far
AllocCount(h) == Cardinality({b \in Bufs : h[b].st # "unalloc"})

\* the step is one turn of wait_for (the only step that pops the queue)
IsDispatch == pending # NoTag /\ queue # <<>> /\ queue' = Tail(queue)

C2_PrintReturnsAfterCallback ==
  [][/\ (call'.fn \in Prints /\ ncalls' = ncalls + 1) =>
          /\ AllocCount(heap') = AllocCount(heap) + 1
          /\ heap[call'.buf].st = "unalloc"
          /\ heap'[call'.buf].st = "alloc"
          /\ pending' # NoTag
     /\ (call.fn \in Prints /\ pending # NoTag /\ pending' = NoTag) =>
          /\ IsDispatch
          /\ Head(queue) = [cb |-> "putstr_cb", ud |-> call.buf]
          /\ cbRuns[call.buf] = 0 /\ cbRuns'[call.buf] = 1
          /\ heap[call.buf].frees = 0 /\ heap'[call.buf].frees = 1
          /\ "PUTSTR" \in seen'
          /\ AllocCount(heap') = AllocCount(heap)]_vars

\* C2 witness: putstr returned, one callback and one free for its block
C2_Witness ==
  /\ call.fn = "putstr"
  /\ pending = NoTag
  /\ "PUTSTR" \in seen
  /\ cbRuns[call.buf] = 1
  /\ heap[call.buf].frees = 1
  /\ AllocCount(heap) = 1

\* C3: while delay_ms waits, a dispatched console callback (putstr_cb) or
\* SPI callback (spi_cb) runs and yields its own tag, and delay_ms is still
\* pending after it; delay_ms has returned only if DELAY was yielded in its
\* wait.
C3_DelayNotSatisfiedByOtherTag ==
  /\ [][(call.fn = "delay_ms" /\ IsDispatch /\ Head(queue).cb \in {"putstr_cb", "spi_cb"}) =>
          /\ pending' # NoTag
          /\ pending' = pending
          /\ (IF Head(queue).cb = "putstr_cb" THEN "PUTSTR" ELSE "SPIBUF") \in seen']_vars
  /\ []((call.fn = "delay_ms" /\ pending = NoTag) => "DELAY" \in seen)

\* C3 witness: delay_ms still pending after an SPI callback was dispatched
C3_Witness ==
  /\ call.fn = "delay_ms"
  /\ pending # NoTag
  /\ "SPIBUF" \in seen
  /\ "DELAY" \notin seen

\* C4: delay_ms(ms), for ms = 0 and ms > 0, eventually returns once the
\* kernel has accepted its one-shot, the kernel firing the timer it started
\* and dispatching the callbacks it delivered (FairSpec).
C4_DelayReturns ==
  (call.fn = "delay_ms" /\ pending # NoTag /\ call.log[2].res >= 0) ~> (pending = NoTag)

\* delay_ms does return when its subscribe and its one-shot were both accepted
DelayReturnsWhenAccepted ==
  (call.fn = "delay_ms" /\ pending # NoTag /\ \A i \in 1..Len(call.log) : call.log[i].res >= 0) ~> (pending = NoTag)

\* C5: when the read-buffer grant of spi_read_write (allow on SPI operation
\* 0) returns a negative code, it is the only primitive call of that
\* spi_read_write and the call returns exactly that code.
C5_ReadGrantFailureShortCircuits ==
  call.fn = "spi_read_write" =>
    /\ Len(call.log) >= 1
    /\ call.log[1].sys = "allow" /\ call.log[1].drv = 4 /\ call.log[1].num = 0
    /\ call.log[1].res < 0 => Len(call.log) = 1 /\ call.ret = <<call.log[1].res>>

\* C5 witness: spi_read_write returned the code of its failed read grant
C5_Witness ==
  /\ call.fn = "spi_read_write"
  /\ call.log[1].res = -2
  /\ call.ret = <<-2>>

\* C6: spi_write issues allow(4,1), then subscribe(4,0), then command(4,1),
\* stops at the first negative result and returns it; the command is issued
\* only after both succeeded and its result is returned unchanged.
C6_SpiWriteShortCircuits ==
  call.fn = "spi_write" =>
    LET log == call.log
    IN /\ Len(log) \in 1..3
       /\ log[1].sys = "allow" /\ log[1].drv = 4 /\ log[1].num = 1
       /\ log[1].res < 0 => Len(log) = 1
       /\ Len(log) >= 2 => log[2].sys = "subscribe" /\ log[2].drv = 4 /\ log[2].num = 0
       /\ (log[1].res >= 0 /\ log[2].res < 0) => Len(log) = 2
       /\ Len(log) = 3 => log[3].sys = "command" /\ log[3].drv = 4 /\ log[3].num = 1
       /\ (log[1].res >= 0 /\ log[2].res >= 0) => Len(log) = 3
       /\ call.ret = <<log[Len(log)].res>>
       /\ \A i \in 1..(Len(log) - 1) : log[i].res >= 0

\* C6 witness: subscribe failed in spi_write, no command, its code returned
C6_Witness ==
  /\ call.fn = "spi_write"
  /\ Len(call.log) = 2
  /\ call.log[2].res = -1
  /\ call.ret = <<-1>>

\* C7: in putnstr_async and putnstr a negative result of allow aborts the
\* composition (subscribe is not issued), and putnstr does not enter
\* wait_for(PUTSTR) after a failed allow or a failed subscribe.
C7_ConsoleAbortsOnFailure ==
  call.fn \in Prints \cup {"putnstr_async"} =>
    /\ call.log[1].res < 0 => Len(call.log) = 1
    /\ (call.fn \in Prints /\ pending # NoTag) => \A i \in 1..Len(call.log) : call.log[i].res >= 0

\* C8: in delay_ms a negative timer_subscribe result means timer_oneshot is
\* not issued, and the wait is entered only if both were accepted.
C8_DelayAbortsOnFailure ==
  call.fn = "delay_ms" =>
    /\ call.log[1].res < 0 => Len(call.log) = 1
    /\ pending # NoTag => \A i \in 1..Len(call.log) : call.log[i].res >= 0

\* C9: in nrf51822_serialization_write a negative result of the TX buffer
\* grant (allow 5,1) means the transmit command (5,0) is not issued.
C9_NrfWriteAbortsOnFailure ==
  call.fn = "nrf51822_serialization_write" =>
    (call.log[1].res < 0 => \A i \in 1..Len(call.log) : call.log[i].sys # "command")

\* C10: a print buffer is released at most once even when its completion
\* callback is invoked a second time.
C10_NoDoubleFree ==
  \A b \in Bufs : heap[b].frees <= 1

\* C11: when the composition of spi_block_write succeeded, the call has
\* returned only after the transfer completed: no transfer is in flight and
\* the write buffer is no longer granted once spi_block_write has returned.
C11_SpiBlockWriteWaits ==
  (call.fn = "spi_block_write" /\ pending = NoTag /\ Len(call.log) = 3 /\ call.log[3].res >= 0) =>
    /\ 4 \notin kernel.busy
    /\ kernel.grants[<<4, 1>>] = NULL

\* C12: the buffer of a print of at least one character is eventually freed,
\* whatever allow and subscribe returned, the kernel completing every write
\* it accepted and dispatching the callbacks it delivered (FairSpec).
C12_BufferEventuallyFreed ==
  \A b \in Bufs :
    (call.fn \in Prints /\ call.buf = b /\ heap[b].st = "alloc" /\ call.log[1].len > 0) ~> (heap[b].st = "freed")

\* the buffer is freed when allow and subscribe were both accepted
FreedWhenAccepted ==
  \A b \in Bufs :
    (call.fn \in Prints /\ call.buf = b /\ heap[b].st = "alloc" /\ call.log[1].len > 0
       /\ call.log[1].res >= 0 /\ call.log[2].res >= 0) ~> (heap[b].st = "freed")

\* facade functions by driver
ConsoleFns == Prints \cup {"putnstr_async"}
TimerFns == {"timer_subscribe", "timer_oneshot", "timer_start_repeating", "delay_ms"}
SpiFns == {"spi_write_byte", "spi_read_buf", "spi_write", "spi_read_write", "spi_block_write"}
NrfFns == {"nrf51822_serialization_subscribe", "nrf51822_serialization_setup_rx_buffer", "nrf51822_serialization_write"}

\* every primitive call of the last facade call uses the facade's driver
\* number (console as given, timer 3, SPI 4, serialization 5); in the SPI
\* facade allow 0 grants the read buffer, allow 1 the write buffer, and the
\* transfer of spi_write is started by command 1
DriversMatch(console) ==
  \A i \in 1..Len(call.log) :
    LET e == call.log[i]
    IN /\ call.fn \in ConsoleFns => e.drv = console
       /\ call.fn \in TimerFns => e.drv = 3
       /\ call.fn \in SpiFns => e.drv = 4
       /\ call.fn \in NrfFns => e.drv = 5
       /\ (call.fn \in SpiFns /\ e.sys = "allow") => (e.num = 0 <=> e.buf = InBuf) /\ (e.num = 1 <=> e.buf = OutBuf)
       /\ (call.fn \in {"spi_write", "spi_read_write", "spi_block_write"} /\ e.sys = "command") => e.num = 1

\* C13 as stated: console calls use driver 1, timer 3, SPI 4, serialization 5
C13_DriversAsStated == DriversMatch(1)

\* C13 amended: console calls use driver 0 (operation and event 1), timer
\* calls driver 3, SPI calls driver 4, serialization calls driver 5; SPI
\* operation 0 is the read-buffer grant, 1 the write-buffer grant and the
\* transfer trigger.
C13_DriversConsoleZero == DriversMatch(0)

\* C13 witness: a print issued its allow and its subscribe on driver 0
C13_Witness ==
  /\ call.fn \in Prints
  /\ Len(call.log) = 2
  /\ \A i \in 1..2 : call.log[i].drv = 0 /\ call.log[i].num = 1

\* C14: the region a print passes to allow is the block allocated in that
\* call, holding a copy of the requested length, never the caller's str; no
\* grant ever refers to the caller's str, so none does after the call returned.
C14_GrantsPrivateCopy ==
  /\ \A a \in AllowSlots : kernel.grants[a] # StrBuf
  /\ call.fn \in Prints =>
       /\ call.buf \in Bufs
       /\ call.log[1].sys = "allow"
       /\ call.log[1].buf = call.buf
       /\ call.log[1].buf # StrBuf
       /\ heap[call.buf].st = "alloc" => Len(heap[call.buf].data) = call.log[1].len
       /\ pending = NoTag => kernel.grants[<<0, 1>>] \notin {StrBuf, call.buf}

\* C14 witness: the private copy of "hi" is granted to the console
C14_Witness ==
  /\ call.fn = "putnstr"
  /\ pending # NoTag
  /\ kernel.grants[<<0, 1>>] = call.buf
  /\ heap[call.buf].data = <<104, 105>>

\* the asynchronous facade calls
AsyncFns == {"putnstr_async", "timer_subscribe", "timer_oneshot", "timer_start_repeating", "spi_write_byte", "spi_read_buf", "spi_write", "spi_read_write", "nrf51822_serialization_subscribe", "nrf51822_serialization_setup_rx_buffer", "nrf51822_serialization_write"}

\* C15: an asynchronous facade call returns without entering a wait and no
\* callback is dispatched during it (nothing leaves the queue, no callback
\* side effect or tag); a callback is dispatched only while putnstr, putstr
\* or delay_ms is suspended in wait_for, and only these three suspend.
C15_OnlyWaitForSuspends ==
  /\ [][(ncalls' = ncalls + 1 /\ call'.fn \in AsyncFns) =>
          /\ pending = NoTag /\ pending' = NoTag
          /\ queue' = queue /\ heap' = heap /\ cbRuns' = cbRuns /\ seen' = seen]_vars
  /\ [][(queue # <<>> /\ queue' = Tail(queue)) =>
          pending # NoTag /\ call.fn \in Prints \cup {"delay_ms"}]_vars
  /\ [](pending # NoTag => call.fn \in Prints \cup {"delay_ms"})

\* C15 witness: spi_write returned while a delivered callback stays undispatched
C15_Witness ==
  /\ call.fn = "spi_write"
  /\ pending = NoTag
  /\ queue # <<>>

\* the tag each callback yields
TagOf(cb) ==
  IF cb = "putstr_cb" THEN "PUTSTR"
  ELSE IF cb = "delay_cb" THEN "DELAY"
  ELSE IF cb = "spi_cb" THEN "SPIBUF"
  ELSE "ASYNC"

\* C16: a turn of wait_for dispatches exactly the oldest delivered callback;
\* the callback runs to completion (putstr_cb frees its user data, the
\* others leave the heap alone) and yields its tag; the wait ends in that
\* turn if and only if the tag is the awaited one, so it ends at the first
\* callback in delivery order that yields the awaited tag.
C16_DispatchInOrder ==
  [][IsDispatch =>
       LET inv == Head(queue)
       IN /\ queue' = Tail(queue)
          /\ seen' = seen \cup {TagOf(inv.cb)}
          /\ pending' = NoTag <=> TagOf(inv.cb) = pending
          /\ pending' # NoTag => pending' = pending
          /\ (inv.cb = "putstr_cb" /\ inv.ud \in Bufs) =>
               /\ heap'[inv.ud].st = "freed"
               /\ heap'[inv.ud].frees = heap[inv.ud].frees + 1
               /\ cbRuns'[inv.ud] = cbRuns[inv.ud] + 1
               /\ \A b \in Bufs \ {inv.ud} : heap'[b] = heap[b]
          /\ inv.cb # "putstr_cb" => heap' = heap /\ cbRuns' = cbRuns]_vars

\* C16 witness: delay_ms ran an SPI callback first and ended at delay_cb
C16_Witness ==
  /\ call.fn = "delay_ms"
  /\ pending = NoTag
  /\ seen = {"SPIBUF", "DELAY"}

C18_CallbackFreesOwnBuffer ==
  /\ [](call.fn \in Prints =>
          /\ call.log[2].cb = "putstr_cb"
          /\ call.log[2].ud = call.buf
          /\ call.log[1].buf = call.buf)
  /\ [][(IsDispatch /\ Head(queue).cb = "putstr_cb") =>
          /\ call.fn \in Prints
          /\ Head(queue).ud = call.buf
          /\ heap[call.buf].st = "alloc" /\ heap'[call.buf].st = "freed"
          /\ \A b \in Bufs \ {call.buf} : heap'[b] = heap[b]]_vars
  /\ [](\A b \in Bufs : heap[b].st = "freed" => kernel.grants[<<0, 1>>] # b)

\* C18 witness: two prints returned, each block freed once by its own callback
C18_Witness ==
  /\ call.fn \in Prints
  /\ call.buf = 2
  /\ pending = NoTag
  /\ heap[1].frees = 1 /\ cbRuns[1] = 1
  /\ heap[2].frees = 1 /\ cbRuns[2] = 1

\* C19: delay_ms issues subscribe(3, 0, delay_cb, NULL), then the one-shot
\* command(3, 0, ms), then waits on DELAY; while it waits with the one-shot
\* it started still armed, the timer registration is delay_cb, so the timer
\* event of this one-shot cannot fire with no delay callback registered; and
\* delay_ms has returned only after DELAY was yielded in its wait.
C19_DelaySubscribesBeforeOneshot ==
  call.fn = "delay_ms" =>
    /\ Len(call.log) = 2
    /\ call.log[1].sys = "subscribe" /\ call.log[1].cb = "delay_cb" /\ call.log[1].ud = NULL
    /\ call.log[2].sys = "command" /\ call.log[2].num = 0
    /\ (pending # NoTag /\ call.log[2].res >= 0 /\ kernel.timer = "oneshot") =>
         kernel.regs[<<3, 0>>] = [cb |-> "delay_cb", ud |-> NULL]
    /\ pending = NoTag => "DELAY" \in seen

\* the order alone: subscribe, one-shot, wait, and return only after DELAY
DelayOrderOnly ==
  call.fn = "delay_ms" =>
    /\ Len(call.log) = 2
    /\ call.log[1].sys = "subscribe" /\ call.log[1].cb = "delay_cb" /\ call.log[1].ud = NULL
    /\ call.log[2].sys = "command" /\ call.log[2].num = 0
    /\ (pending # NoTag /\ call.log[1].res >= 0 /\ call.log[2].res >= 0 /\ kernel.timer = "oneshot") =>
         kernel.regs[<<3, 0>>] = [cb |-> "delay_cb", ud |-> NULL]
    /\ pending = NoTag => "DELAY" \in seen

\* C20: when spi_write or spi_read_write returns a negative code from a
\* step after its first, every grant an earlier allow of the call obtained
\* and the registration an earlier subscribe obtained are in place at the
\* return; every allow of the call carries the caller's length (none is a
\* revoking allow of length 0 added by the facade) and no primitive call is
\* issued twice.
C20_NoRollbackOnFailure ==
  [][(ncalls' = ncalls + 1 /\ call'.fn \in {"spi_write", "spi_read_write"}
        /\ Len(call'.log) >= 2 /\ call'.ret[1] < 0) =>
       LET log == call'.log
       IN /\ \A i \in 1..Len(log) :
               /\ (log[i].sys = "allow" /\ log[i].res >= 0) =>
                    kernel'.grants[<<log[i].drv, log[i].num>>] = (IF log[i].len = 0 THEN NULL ELSE log[i].buf)
               /\ (log[i].sys = "subscribe" /\ log[i].res >= 0) =>
                    kernel'.regs[<<log[i].drv, log[i].num>>] = [cb |-> log[i].cb, ud |-> log[i].ud]
               /\ log[i].sys = "allow" => log[i].len = log[1].len
               /\ i < Len(log) => log[i].res >= 0
          /\ \A i, j \in 1..Len(log) :
               i # j => <<log[i].sys, log[i].drv, log[i].num>> # <<log[j].sys, log[j].drv, log[j].num>>
          /\ call'.ret = <<log[Len(log)].res>>]_vars

\* C20 witness: spi_read_write failed at its subscribe; both grants stay
C20_Witness ==
  /\ call.fn = "spi_read_write"
  /\ Len(call.log) = 3
  /\ call.log[3].res < 0
  /\ call.ret = <<call.log[3].res>>
  /\ kernel.grants[<<4, 0>>] = InBuf
  /\ kernel.grants[<<4, 1>>] = OutBuf

\* the timer registration delay_ms makes
DelayReg == [cb |-> "delay_cb", ud |-> NULL]

\* C21: after any delay_ms call returns, and until the application's next
\* call, the active registration of the timer event (driver 3, event 0) is
\* delay_cb with null user data, so later timer events invoke delay_cb and
\* not a callback installed with timer_subscribe before.
C21_DelayLeavesDelayCb ==
  (call.fn = "delay_ms" /\ pending = NoTag) => kernel.regs[<<3, 0>>] = DelayReg

\* the replacement alone: a delay_ms whose subscribe was accepted leaves
\* delay_cb registered when it returns, and a timer event after the return
\* invokes delay_cb
DelayReplacesWhenAccepted ==
  /\ []((call.fn = "delay_ms" /\ pending = NoTag /\ call.log[1].res >= 0) => kernel.regs[<<3, 0>>] = DelayReg)
  /\ [][(call.fn = "delay_ms" /\ pending = NoTag /\ call.log[1].res >= 0 /\ call' = call /\ Len(queue') > Len(queue)) =>
          queue' = Append(queue, DelayReg)]_vars

\* an accepted delay_ms replaced the application's callback and returned, a
\* repeating timer fired after it and invoked delay_cb
DelayReplacedAppCallback ==
  /\ call.fn = "delay_ms" /\ pending = NoTag /\ call.log[1].res >= 0
  /\ kernel.timer = "repeating"
  /\ queue = <<DelayReg>>
  /\ ncalls = 3

====
